---- MODULE Spec2Model ----
(***************************************************************************)
(* Bin Divider Specification Generator (src/app.py).                       *)
(*                                                                         *)
(* The program is a Streamlit script: every user interaction runs the      *)
(* script from the top over the session state (groups, bin_library,        *)
(* next_bin_id, last_action and the widgets' own state).  A button handler *)
(* mutates the session state and calls st.experimental_rerun(), which      *)
(* abandons the pass and runs the script again from the top; a changed     *)
(* input widget is one complete pass.  An action of this model is the      *)
(* handler together with the complete pass that follows it, so every state *)
(* of the model is the session state at the end of a complete pass,        *)
(* together with what that pass displayed (preview, download).             *)
(*                                                                         *)
(* Numbers.  The program computes with floats; the model computes exactly  *)
(* in fixed-point units (float rounding is not modelled):                  *)
(*   Depth/Height/Width (mm)   in 0.1 mm      (the widgets' step)          *)
(*   UT                        in 0.01        (the widget's step)          *)
(*   Lip (cm)                  in 0.001 cm    (h * 0.2 / 10: 2 per 0.1 mm) *)
(*   Bin Gross CBM             in 1e-9        (d*h*w / 1_000_000)          *)
(*   Bin Net CBM               in 1e-11       (gross * UT)                 *)
(*                                                                         *)
(* Objects.  A group is a dict holding a reference to its group_data dict; *)
(* group_data dicts are mutated in place through that reference, so they   *)
(* live in a heap and a group holds an address.  bin_keys lists are only   *)
(* ever rebound (lines 96, 276), never mutated in place, so they are       *)
(* values.                                                                 *)
(***************************************************************************)
EXTENDS Integers, Sequences, FiniteSets, TLC

VARIABLES
    groups,       \* st.session_state.groups: sequence of group dicts
    heap,         \* address -> group_data dict (the objects groups refer to)
    bin_library,  \* st.session_state.bin_library: bin id -> bin dict
    lip_chk,      \* bin id -> state of the "Has Lip?" checkbox (key lip_chk_<id>)
    next_bin_id,  \* st.session_state.next_bin_id
    last_action,  \* st.session_state['last_action']: 0-based index copied, or NoAction
    info,         \* whether the last pass showed the library's st.info hint (line 197)
    preview,      \* what the last pass's live previews computed, per group
    download,     \* what the last pass's Download section did
    issued        \* history: the bin ids allocated so far (in the session, since Clear All)

vars == <<groups, heap, bin_library, lip_chk, next_bin_id, last_action, info, preview, download, issued>>

----------------------------------------------------------------------------
(* Bounds of the model *)

MaxBinId == 2
MaxGroups == 2
MaxNameLen == 15
MaxAisle == 3
MaxCount == 2
MaxDim == 1
MaxUT == 1
MaxKeys == 2
MaxSelected == 3

NoAction == -1

----------------------------------------------------------------------------
(* Column lists *)

GROUP_COLS ==
    << "Group Name", "Floor", "Mod", "Depth", "Start Aisle", "End Aisle", "# of Bays",
       "Total # of Shelves per Bay", "Bay Design" >>

BIN_COLS ==
    << "Bin Box Type", "Depth (mm)", "Height (mm)", "Width (mm)", "Lip (cm)",
       "# of Shelves per Bay", "Qty bins per Shelf", "UT" >>

EXPORT_COLUMNS ==
    << "Group Name", "Floor", "Mod", "Depth", "Start Aisle", "End Aisle", "# of Aisles", "# of Bays",
       "Total # of Shelves per Bay", "Bay Design", "Bin Box Type", "Depth (mm)",
       "Height (mm)", "Width (mm)", "Lip (cm)", "# of Shelves per Bay",
       "Qty bins per Shelf", "Qty Per Bay", "Total Quantity", "UT",
       "Bin Gross CBM", "Bin Net CBM" >>

Range(s) == {s[i] : i \in DOMAIN s}

----------------------------------------------------------------------------
(* Values *)

\* f"bin_{n}"
BinId(n) == "bin_" \o ToString(n)

\* The dict the "Add New Bin Type" handler stores.
NewBin ==
    [c \in Range(BIN_COLS) |->
        CASE c = "Bin Box Type" -> ""
          [] c = "# of Shelves per Bay" -> 1
          [] c = "Qty bins per Shelf" -> 1
          [] OTHER -> 0]

\* The group_data dict the "Add New Group" handler stores.
NewGroupData ==
    [c \in Range(GROUP_COLS) |->
        CASE c \in {"Start Aisle", "End Aisle", "# of Bays", "Total # of Shelves per Bay"} -> 1
          [] OTHER -> ""]

\* out['Lip (cm)'] is the string '-' or a number: a tagged value.
Dash == [dash |-> TRUE, num |-> 0]
Num(x) == [dash |-> FALSE, num |-> x]

\* safe_float(data['Height (mm)']) * 0.2 / 10: a height of h tenths of a mm is
\* h/10 mm, its lip h/10 * 0.2 / 10 cm = 2h thousandths of a cm.
LipOf(height) == height * 2

----------------------------------------------------------------------------
(* calculate_fields *)

DERIVED_COLS == {"# of Aisles", "Qty Per Bay", "Total Quantity", "Bin Gross CBM", "Bin Net CBM"}

\* Mutant: Total Quantity multiplied by the aisle count.
calculate_fields_per_aisle(group_data, bin_data) ==
    LET aisles == group_data["End Aisle"] - group_data["Start Aisle"] + 1
        qty_per_bay == bin_data["# of Shelves per Bay"] * bin_data["Qty bins per Shelf"]
        gross == bin_data["Depth (mm)"] * bin_data["Height (mm)"] * bin_data["Width (mm)"]
    IN  [c \in DOMAIN bin_data \cup DERIVED_COLS |->
            CASE c = "Lip (cm)" ->
                    IF bin_data["Lip (cm)"] = 0 THEN Dash ELSE Num(bin_data["Lip (cm)"])
              [] c = "# of Aisles" -> aisles
              [] c = "Qty Per Bay" -> qty_per_bay
              [] c = "Total Quantity" -> qty_per_bay * group_data["# of Bays"] * aisles
              [] c = "Bin Gross CBM" -> gross
              [] c = "Bin Net CBM" -> gross * bin_data["UT"]
              [] OTHER -> bin_data[c]]

\* calculate_fields(group_data, bin_data): a new dict, the bin's fields plus the
\* calculated ones.  The widgets only ever store numbers in the numeric fields,
\* so int(safe_float(x)) is x.
calculate_fields(group_data, bin_data) ==
    LET shelves_per_bay == bin_data["# of Shelves per Bay"]
        qty_per_shelf == bin_data["Qty bins per Shelf"]
        ut == bin_data["UT"]
        depth_mm == bin_data["Depth (mm)"]
        height_mm == bin_data["Height (mm)"]
        width_mm == bin_data["Width (mm)"]
        lip_cm == bin_data["Lip (cm)"]
        start_aisle == group_data["Start Aisle"]
        end_aisle == group_data["End Aisle"]
        bays == group_data["# of Bays"]
        qty_per_bay == shelves_per_bay * qty_per_shelf
        gross == depth_mm * height_mm * width_mm
    IN  [c \in DOMAIN bin_data \cup DERIVED_COLS |->
            CASE c = "Lip (cm)" -> IF lip_cm = 0 THEN Dash ELSE Num(lip_cm)
              [] c = "# of Aisles" -> end_aisle - start_aisle + 1
              [] c = "Qty Per Bay" -> qty_per_bay
              [] c = "Total Quantity" -> qty_per_bay * bays
              [] c = "Bin Gross CBM" -> gross
              [] c = "Bin Net CBM" -> gross * ut
              [] OTHER -> bin_data[c]]

----------------------------------------------------------------------------
(* sync_bin_keys_with_library *)

\* Mutant: the groups are left as they are.
sync_nothing(gs, lib) == gs

\* Mutant: a group holding an id that is gone loses its whole selection.
sync_clearing(gs, lib) ==
    [i \in DOMAIN gs |->
        [gs[i] EXCEPT !.bin_keys =
            IF \A j \in DOMAIN @ : @[j] \in DOMAIN lib THEN @ ELSE << >>]]

\* Every group's bin_keys filtered down to the ids of the library.
sync_bin_keys_with_library(gs, lib) ==
    [i \in DOMAIN gs |->
        [gs[i] EXCEPT !.bin_keys = SelectSeq(@, LAMBDA k : k \in DOMAIN lib)]]

----------------------------------------------------------------------------
(* generate_excel *)

None == [none |-> TRUE]

\* range(1, 10): the columns the merge loop merges
MERGE_FIRST_COL == 1
MERGE_LAST_COL == 9

\* row = {**{c: group_data.get(c) for c in GROUP_COLS}, **calc};
\* full_row = {c: row.get(c, None) for c in EXPORT_COLUMNS}
full_row(group_data, calc) ==
    [c \in Range(EXPORT_COLUMNS) |->
        IF c \in DOMAIN calc THEN calc[c]
        ELSE IF c \in Range(GROUP_COLS) THEN group_data[c]
        ELSE None]

\* Mutant: an id that is not in the library is skipped but counted.
RECURSIVE BinLoopCountingAll(_, _, _, _, _)
BinLoopCountingAll(group_data, bin_keys, lib, j, acc) ==
    IF j > Len(bin_keys) THEN acc
    ELSE IF bin_keys[j] \notin DOMAIN lib
         THEN BinLoopCountingAll(group_data, bin_keys, lib, j + 1,
                                 [acc EXCEPT !.rows_added = @ + 1])
         ELSE BinLoopCountingAll(group_data, bin_keys, lib, j + 1,
                      [df |-> Append(acc.df,
                                     full_row(group_data,
                                              calculate_fields(group_data, lib[bin_keys[j]]))),
                       rows_added |-> acc.rows_added + 1])

\* The inner loop (lines 109-118) from position j on; acc = [df, rows_added].
RECURSIVE BinLoop(_, _, _, _, _)
BinLoop(group_data, bin_keys, lib, j, acc) ==
    IF j > Len(bin_keys) THEN acc
    ELSE IF bin_keys[j] \notin DOMAIN lib
         THEN BinLoop(group_data, bin_keys, lib, j + 1, acc)
         ELSE BinLoop(group_data, bin_keys, lib, j + 1,
                      [df |-> Append(acc.df,
                                     full_row(group_data,
                                              calculate_fields(group_data, lib[bin_keys[j]]))),
                       rows_added |-> acc.rows_added + 1])

\* The outer loop (lines 105-119) from group i on; acc = [df, group_row_counts].
RECURSIVE GroupLoop(_, _, _, _, _)
GroupLoop(gs, hp, lib, i, acc) ==
    IF i > Len(gs) THEN acc
    ELSE LET r == BinLoop(hp[gs[i].group_data], gs[i].bin_keys, lib, 1,
                          [df |-> acc.df, rows_added |-> 0])
         IN  GroupLoop(gs, hp, lib, i + 1,
                       [df |-> r.df,
                        group_row_counts |-> Append(acc.group_row_counts, r.rows_added)])

\* Mutant: a group without rows still moves the current row on by one.
RECURSIVE MergeLoopShifting(_, _, _, _)
MergeLoopShifting(group_row_counts, i, current_row, merged) ==
    IF i > Len(group_row_counts) THEN merged
    ELSE IF group_row_counts[i] > 0
         THEN MergeLoopShifting(group_row_counts, i + 1, current_row + group_row_counts[i],
                        merged \cup
                        {[start_row |-> current_row, start_column |-> col_idx,
                          end_row |-> current_row + group_row_counts[i] - 1,
                          end_column |-> col_idx] :
                            col_idx \in MERGE_FIRST_COL..MERGE_LAST_COL})
         ELSE MergeLoopShifting(group_row_counts, i + 1, current_row + 1, merged)

\* The merge loop (lines 139-145) from count i on: the merged cell ranges.
RECURSIVE MergeLoop(_, _, _, _)
MergeLoop(group_row_counts, i, current_row, merged) ==
    IF i > Len(group_row_counts) THEN merged
    ELSE IF group_row_counts[i] > 0
         THEN MergeLoop(group_row_counts, i + 1, current_row + group_row_counts[i],
                        merged \cup
                        {[start_row |-> current_row, start_column |-> col_idx,
                          end_row |-> current_row + group_row_counts[i] - 1,
                          end_column |-> col_idx] :
                            col_idx \in MERGE_FIRST_COL..MERGE_LAST_COL})
         ELSE MergeLoop(group_row_counts, i + 1, current_row, merged)

\* The workbook, as far as the claims go: the data rows (sheet row r + 1 holds
\* df[r], sheet row 1 the header), the per-group row counts and the merged ranges.
generate_excel(gs, hp, lib) ==
    LET t == GroupLoop(gs, hp, lib, 1, [df |-> << >>, group_row_counts |-> << >>])
    IN  [df |-> t.df,
         group_row_counts |-> t.group_row_counts,
         merged_cells |-> MergeLoop(t.group_row_counts, 1, 2, {})]

NoExcel == [df |-> << >>, group_row_counts |-> << >>, merged_cells |-> {}]

----------------------------------------------------------------------------
(* One complete pass of the script over the session state *)

\* Mutant: the lip is not recomputed.
render_bin_editors_stale(lib, chk) == lib

\* Lines 200-215: every bin editor stores its widgets' values back into the bin;
\* a widget the user did not touch returns the value it was given, and the lip
\* is recomputed from the height and the checkbox.
render_bin_editors(lib, chk) ==
    [b \in DOMAIN lib |->
        [lib[b] EXCEPT !["Lip (cm)"] =
            IF chk[b] THEN LipOf(lib[b]["Height (mm)"]) ELSE 0]]

\* Lines 272-282: the multiselect of an editing group, untouched by the user,
\* returns its default: the group's bin_keys that are among the options.
render_multiselects(gs, lib) ==
    [i \in DOMAIN gs |->
        IF gs[i].finalized THEN gs[i]
        ELSE [gs[i] EXCEPT !.bin_keys = SelectSeq(@, LAMBDA k : k \in DOMAIN lib)]]

KeyError == [error |-> "KeyError"]

\* Lines 285-288: the live preview of an editing group, one calculate_fields per
\* selected id; bin_library[k] raises KeyError for an id not in the library.
live_preview(gs, hp, lib) ==
    [i \in DOMAIN gs |->
        IF gs[i].finalized THEN << >>
        ELSE [j \in DOMAIN gs[i].bin_keys |->
                IF gs[i].bin_keys[j] \in DOMAIN lib
                THEN calculate_fields(hp[gs[i].group_data], lib[gs[i].bin_keys[j]])
                ELSE KeyError]]

\* Mutant: the library is not looked at.
download_section_any_library(gs, hp, lib) ==
    IF gs # << >>
    THEN [shown |-> "download_button", excel |-> generate_excel(gs, hp, lib)]
    ELSE [shown |-> "nothing", excel |-> NoExcel]

\* Lines 331-342: the Download section.
download_section(gs, hp, lib) ==
    IF gs # << >>
    THEN IF DOMAIN lib = {}
         THEN [shown |-> "warning", excel |-> NoExcel]
         ELSE [shown |-> "download_button", excel |-> generate_excel(gs, hp, lib)]
    ELSE [shown |-> "nothing", excel |-> NoExcel]

\* The addresses the groups refer to; a group_data dict no group refers to is
\* garbage.
Live(gs) == {gs[i].group_data : i \in DOMAIN gs}

\* An address is an object's identity and nothing else: the live dicts are kept
\* numbered 1, 2, ... in the order the group list first refers to them.
FirstRef(gs, a) == CHOOSE i \in DOMAIN gs :
                      /\ gs[i].group_data = a
                      /\ \A j \in 1..(i - 1) : gs[j].group_data # a

Rank(gs, a) == Cardinality({b \in Live(gs) : FirstRef(gs, b) <= FirstRef(gs, a)})

CompactGroups(gs) == [i \in DOMAIN gs |-> [gs[i] EXCEPT !.group_data = Rank(gs, @)]]

CompactHeap(gs, hp) ==
    [r \in 1..Cardinality(Live(gs)) |-> hp[CHOOSE a \in Live(gs) : Rank(gs, a) = r]]

\* The state at the end of a complete pass over session state (gs, hp, lib, chk):
\* the library's hint (lines 196-197), bin editors, the top-level sync (line 228),
\* the groups' widgets and previews, the Download section.  Widget state of a bin that is no longer rendered is
\* dropped.
Pass(gs, hp, lib, chk) ==
    LET lib1 == render_bin_editors(lib, chk)
        gs1 == sync_bin_keys_with_library(gs, lib1)
        gs2 == render_multiselects(gs1, lib1)
    IN  /\ bin_library' = lib1
        /\ lip_chk' = [b \in DOMAIN lib1 |-> chk[b]]
        /\ groups' = CompactGroups(gs2)
        /\ heap' = CompactHeap(gs2, hp)
        /\ info' = (DOMAIN bin_library' = {})
        /\ preview' = live_preview(groups', heap', bin_library')
        /\ download' = download_section(groups', heap', bin_library')

----------------------------------------------------------------------------
(* The session: Init and one action per handler *)

Init ==
    /\ groups = << >>
    /\ heap = << >>
    /\ bin_library = << >>
    /\ lip_chk = << >>
    /\ next_bin_id = 1
    /\ last_action = NoAction
    /\ info = TRUE
    /\ preview = << >>
    /\ download = [shown |-> "nothing", excel |-> NoExcel]
    /\ issued = [session |-> {}, since_clear |-> {}]

\* Mutant: the id is numbered by the size of the library.
new_id_by_size(n, lib) == BinId(Cardinality(DOMAIN lib) + 1)

\* new_id = f"bin_{st.session_state.next_bin_id}"
new_id(n, lib) == BinId(n)

\* "Add New Bin Type" (lines 181-194).  The checkbox of the new bin is first
\* rendered with value = (lip > 0) = False.
AddBin ==
    /\ next_bin_id <= MaxBinId
    /\ LET id == new_id(next_bin_id, bin_library)
       IN  /\ next_bin_id' = next_bin_id + 1
           /\ issued' = [session |-> issued.session \cup {id},
                         since_clear |-> issued.since_clear \cup {id}]
           /\ Pass(groups, heap,
                   [b \in DOMAIN bin_library \cup {id} |->
                       IF b = id THEN NewBin ELSE bin_library[b]],
                   [b \in DOMAIN bin_library \cup {id} |->
                       IF b = id THEN FALSE ELSE lip_chk[b]])
    /\ UNCHANGED last_action

\* The values the modelled user gives a bin editor's widgets, within their
\* min_value / max_value.  In the session the user edits the height (what the
\* lip derives from) and leaves the other fields as created; SpecCalc below
\* ranges over every field.
BinInputs(c) ==
    CASE c = "Height (mm)" -> 0..MaxDim
      [] OTHER -> {}

\* A bin editor's input widget changed to v (lines 205-215): one complete pass.
EditBin(b, c, v) ==
    /\ b \in DOMAIN bin_library
    /\ v \in BinInputs(c)
    /\ v # bin_library[b][c]
    /\ Pass(groups, heap, [bin_library EXCEPT ![b][c] = v], lip_chk)
    /\ UNCHANGED <<next_bin_id, last_action, issued>>

\* The "Has Lip?" checkbox toggled (line 208): one complete pass.
ToggleLip(b) ==
    /\ b \in DOMAIN bin_library
    /\ Pass(groups, heap, bin_library, [lip_chk EXCEPT ![b] = ~@])
    /\ UNCHANGED <<next_bin_id, last_action, issued>>

\* An address no live group_data dict has.
Fresh(hp) == Cardinality(DOMAIN hp) + 1

\* del st.session_state.bin_library[bin_id]
del_bin(lib, b) == [k \in DOMAIN lib \ {b} |-> lib[k]]

\* A bin's "Delete" button (lines 220-225): the editors before it have been
\* rendered, then del, sync, rerun.
DeleteBin(b) ==
    /\ b \in DOMAIN bin_library
    /\ LET lib1 == del_bin(bin_library, b)
       IN  Pass(sync_bin_keys_with_library(groups, lib1), heap, lib1, lip_chk)
    /\ UNCHANGED <<next_bin_id, last_action, issued>>


\* "Add New Group" (lines 232-248).
AddGroup ==
    /\ Len(groups) < MaxGroups
    /\ LET a == Fresh(heap)
       IN  Pass(Append(groups, [group_data |-> a, bin_keys |-> << >>, finalized |-> FALSE]),
                (a :> NewGroupData) @@ heap, bin_library, lip_chk)
    /\ UNCHANGED <<next_bin_id, last_action, issued>>

\* The values the modelled user gives a group's widgets.  In the session the
\* user edits the name (what "Copy Group" rewrites) and leaves the other fields
\* as created; SpecCalc below ranges over the aisles and bays.
GroupInputs(c) ==
    CASE c = "Group Name" -> {"", "A"}
      [] OTHER -> {}

\* An input widget of an editing group changed (lines 260-269): the value is
\* stored into the group_data dict the group refers to.
EditGroup(i, c, v) ==
    /\ i \in DOMAIN groups
    /\ ~groups[i].finalized
    /\ v \in GroupInputs(c)
    /\ v # heap[groups[i].group_data][c]
    /\ Pass(groups, [heap EXCEPT ![groups[i].group_data][c] = v], bin_library, lip_chk)
    /\ UNCHANGED <<next_bin_id, last_action, issued>>

\* What a multiselect can return: the options the user picked, in the order
\* picked, each at most once.
RECURSIVE Selections(_)
Selections(S) ==
    {<< >>} \cup UNION {{<<k>> \o t : t \in Selections(S \ {k})} : k \in S}

\* The multiselect of an editing group changed (lines 272-282).
SelectBins(i, sel) ==
    /\ i \in DOMAIN groups
    /\ ~groups[i].finalized
    /\ sel \in Selections(DOMAIN bin_library)
    /\ sel # groups[i].bin_keys
    /\ Pass([groups EXCEPT ![i].bin_keys = sel], heap, bin_library, lip_chk)
    /\ UNCHANGED <<next_bin_id, last_action, issued>>

\* "Finalize Group" (lines 292-295).
Finalize(i) ==
    /\ i \in DOMAIN groups
    /\ ~groups[i].finalized
    /\ Pass([groups EXCEPT ![i].finalized = TRUE], heap, bin_library, lip_chk)
    /\ UNCHANGED <<next_bin_id, last_action, issued>>

\* st.session_state.groups.pop(group_idx)
pop(gs, i) == [j \in 1..(Len(gs) - 1) |-> IF j < i THEN gs[j] ELSE gs[j + 1]]

\* "Delete Group" (lines 297-299), offered for an editing group.
DeleteGroup(i) ==
    /\ i \in DOMAIN groups
    /\ ~groups[i].finalized
    /\ Pass(pop(groups, i), heap, bin_library, lip_chk)
    /\ UNCHANGED <<next_bin_id, last_action, issued>>

\* "Edit Group" (lines 301-303), offered for a finalized group.
Reopen(i) ==
    /\ i \in DOMAIN groups
    /\ groups[i].finalized
    /\ Pass([groups EXCEPT ![i].finalized = FALSE], heap, bin_library, lip_chk)
    /\ UNCHANGED <<next_bin_id, last_action, issued>>

\* Mutant: a shallow copy, whose group_data is the source's own dict.
shallow_copy(hp, grp) == [heap |-> hp, obj |-> grp]

\* copy.deepcopy(group): a new dict referring to a new group_data dict (at a
\* fresh address) with the same contents, and an equal bin_keys list.
deepcopy(hp, grp) ==
    [heap |-> (Fresh(hp) :> hp[grp.group_data]) @@ hp,
     obj |-> [grp EXCEPT !.group_data = Fresh(hp)]]

\* f"{name} (Copy)" if name else "Untitled (Copy)"
CopyName(name) == IF name # "" THEN name \o " (Copy)" ELSE "Untitled (Copy)"

\* "Copy Group" (lines 319-329).
CopyGroup(i) ==
    /\ i \in DOMAIN groups
    /\ Len(groups) < MaxGroups
    /\ Len(CopyName(heap[groups[i].group_data]["Group Name"])) <= MaxNameLen
    /\ LET c == deepcopy(heap, groups[i])
           new_group == [c.obj EXCEPT !.finalized = FALSE]
           hp1 == [c.heap EXCEPT ![new_group.group_data]["Group Name"] = CopyName(@)]
       IN  Pass(Append(groups, new_group), hp1, bin_library, lip_chk)
    /\ last_action' = i - 1
    /\ UNCHANGED <<next_bin_id, issued>>

\* "Clear All Data" (lines 345-349).
ClearAll ==
    /\ next_bin_id' = 1
    /\ issued' = [issued EXCEPT !.since_clear = {}]
    /\ Pass(<< >>, heap, << >>, lip_chk)
    /\ UNCHANGED last_action

Next ==
    \/ AddBin
    \/ \E b \in DOMAIN bin_library : \E c \in Range(BIN_COLS) : \E v \in BinInputs(c) : EditBin(b, c, v)
    \/ \E b \in DOMAIN bin_library : ToggleLip(b)
    \/ \E b \in DOMAIN bin_library : DeleteBin(b)
    \/ AddGroup
    \/ \E i \in DOMAIN groups : \E c \in Range(GROUP_COLS) : \E v \in GroupInputs(c) : EditGroup(i, c, v)
    \/ \E i \in DOMAIN groups : \E sel \in Selections(DOMAIN bin_library) : SelectBins(i, sel)
    \/ \E i \in DOMAIN groups : Finalize(i)
    \/ \E i \in DOMAIN groups : DeleteGroup(i)
    \/ \E i \in DOMAIN groups : Reopen(i)
    \/ \E i \in DOMAIN groups : CopyGroup(i)
    \/ ClearAll

Spec == Init /\ [][Next]_vars

----------------------------------------------------------------------------
(* calculate_fields on its own: every admissible group and bin, one preview *)

\* A bin as the editor's widgets can leave it: dimensions >= 0, counts >= 1,
\* UT within [0, 1], the lip derived from the height and the checkbox.
BinOf(depth, height, width, shelves, qty, ut, chk) ==
    [c \in Range(BIN_COLS) |->
        CASE c = "Bin Box Type" -> ""
          [] c = "Depth (mm)" -> depth
          [] c = "Height (mm)" -> height
          [] c = "Width (mm)" -> width
          [] c = "Lip (cm)" -> IF chk THEN LipOf(height) ELSE 0
          [] c = "# of Shelves per Bay" -> shelves
          [] c = "Qty bins per Shelf" -> qty
          [] OTHER -> ut]

\* A group_data dict as the group's widgets can leave it (lines 265-268: every
\* number input has min_value=1 and nothing relates End Aisle to Start Aisle).
GroupDataOf(name, start, end, bays) ==
    [NewGroupData EXCEPT !["Group Name"] = name, !["Start Aisle"] = start,
                         !["End Aisle"] = end, !["# of Bays"] = bays]

InitCalc ==
    /\ \E start, end \in 1..MaxAisle : \E bays \in 1..MaxCount :
          heap = <<GroupDataOf("", start, end, bays)>>
    /\ groups = <<[group_data |-> 1, bin_keys |-> <<BinId(1)>>, finalized |-> FALSE]>>
    /\ \E depth, height, width \in 0..MaxDim : \E shelves, qty \in 1..MaxCount :
          \E ut \in 0..MaxUT : \E chk \in BOOLEAN :
             /\ bin_library = (BinId(1) :> BinOf(depth, height, width, shelves, qty, ut, chk))
             /\ lip_chk = (BinId(1) :> chk)
    /\ next_bin_id = 2
    /\ last_action = NoAction
    /\ info = FALSE
    /\ preview = << >>
    /\ download = [shown |-> "nothing", excel |-> NoExcel]
    /\ issued = [session |-> {BinId(1)}, since_clear |-> {BinId(1)}]

\* The live preview of lines 285-288 is computed.
LivePreview ==
    /\ preview = << >>
    /\ preview' = live_preview(groups, heap, bin_library)
    /\ UNCHANGED <<groups, heap, bin_library, lip_chk, next_bin_id, last_action, info,
                   download, issued>>

NextCalc == LivePreview

SpecCalc == InitCalc /\ [][NextCalc]_vars

----------------------------------------------------------------------------
(* generate_excel on its own: every group list and library, dangling and    *)
(* repeated ids included                                                    *)

\* The sequences over S of length at most n.
RECURSIVE SeqsUpTo(_, _)
SeqsUpTo(S, n) ==
    IF n = 0 THEN {<< >>}
    ELSE LET shorter == SeqsUpTo(S, n - 1)
         IN  shorter \cup {Append(t, k) : t \in shorter, k \in S}

AllIds == {BinId(n) : n \in 1..MaxBinId}

\* Bin n of the library has height n - 1, n shelves and a lip; group i of the
\* list has i bays and runs from aisle i to aisle 1; the odd groups are
\* finalized: rows of different groups and bins differ.
InitExcel ==
    /\ \E n \in 0..MaxGroups :
          /\ \E keys \in [1..n -> SeqsUpTo(AllIds, MaxKeys)] :
                groups = [i \in 1..n |->
                            [group_data |-> i, bin_keys |-> keys[i],
                             finalized |-> (i % 2 = 1)]]
          /\ heap = [i \in 1..n |-> GroupDataOf(IF i = 1 THEN "A" ELSE "", i, 1, i)]
    /\ \E present \in SUBSET (1..MaxBinId) :
          /\ bin_library = [b \in {BinId(n) : n \in present} |->
                               LET n == CHOOSE m \in present : BinId(m) = b
                               IN  BinOf(1, n - 1, 1, n, 1, 1, TRUE)]
          /\ lip_chk = [b \in {BinId(n) : n \in present} |-> TRUE]
    /\ next_bin_id = MaxBinId + 1
    /\ last_action = NoAction
    /\ info = FALSE
    /\ preview = << >>
    /\ download = [shown |-> "nothing", excel |-> NoExcel]
    /\ issued = [session |-> AllIds, since_clear |-> AllIds]

\* generate_excel(groups) is called on the list as it is.
CallGenerateExcel ==
    /\ download.shown = "nothing"
    /\ download' = [shown |-> "download_button",
                    excel |-> generate_excel(groups, heap, bin_library)]
    /\ UNCHANGED <<groups, heap, bin_library, lip_chk, next_bin_id, last_action, info,
                   preview, issued>>

NextExcel == CallGenerateExcel

SpecExcel == InitExcel /\ [][NextExcel]_vars

----------------------------------------------------------------------------
(* Deleting a bin, from every session state with the whole library present  *)

LibraryIds == {BinId(n) : n \in 1..MaxSelected}

\* The selections of at most n of the ids S (no id twice: a multiselect's value).
SelectionsUpTo(S, n) == {t \in Selections(S) : Len(t) <= n}

\* The session after MaxSelected "Add New Bin Type", MaxGroups "Add New Group",
\* any selections, and the odd groups finalized.
InitDelete ==
    /\ \E keys \in [1..MaxGroups -> SelectionsUpTo(LibraryIds, MaxSelected)] :
          groups = [i \in 1..MaxGroups |->
                      [group_data |-> i, bin_keys |-> keys[i], finalized |-> (i % 2 = 1)]]
    /\ heap = [i \in 1..MaxGroups |-> GroupDataOf(IF i = 1 THEN "A" ELSE "", 1, i, 1)]
    /\ \E chk \in BOOLEAN :
          /\ bin_library = [b \in LibraryIds |-> BinOf(0, 1, 0, 1, 1, 0, chk)]
          /\ lip_chk = [b \in LibraryIds |-> chk]
    /\ next_bin_id = MaxSelected + 1
    /\ last_action = NoAction
    /\ info = FALSE
    /\ preview = live_preview(groups, heap, bin_library)
    /\ download = download_section(groups, heap, bin_library)
    /\ issued = [session |-> LibraryIds, since_clear |-> LibraryIds]

NextDelete == \E b \in DOMAIN bin_library : DeleteBin(b)

SpecDelete == InitDelete /\ [][NextDelete]_vars

----------------------------------------------------------------------------
(* The claims *)

\* Group i as its fields read: the group_data dict it refers to, its bin_keys,
\* its finalized flag.
View(i) ==
    [group_data |-> heap[groups[i].group_data],
     bin_keys |-> groups[i].bin_keys,
     finalized |-> groups[i].finalized]

\* Group i as its fields read after the step.
ViewNext(i) ==
    [group_data |-> heap'[groups'[i].group_data],
     bin_keys |-> groups'[i].bin_keys,
     finalized |-> groups'[i].finalized]

Exported == download.shown = "download_button"

\* The positions of group i's bin_keys whose id is in the library.
Surviving(i) ==
    {j \in DOMAIN groups[i].bin_keys : groups[i].bin_keys[j] \in DOMAIN bin_library}

RECURSIVE SumTo(_, _)
SumTo(f, n) == IF n = 0 THEN 0 ELSE f[n] + SumTo(f, n - 1)

\* The number of rows the groups before group i are due.
Offset(i) == SumTo([h \in DOMAIN groups |-> Cardinality(Surviving(h))], i - 1)

(* C1 *)
\* C1: whenever the pass calls generate_excel or computes a live preview, every
\* id in every group's bin_keys is a key of the library: no preview lookup
\* fails and the export skips no id.
C1_ReferentialIntegrity ==
    /\ (Exported \/ \E i \in DOMAIN preview : preview[i] # << >>)
          => \A i \in DOMAIN groups : \A j \in DOMAIN groups[i].bin_keys :
                groups[i].bin_keys[j] \in DOMAIN bin_library
    /\ \A i \in DOMAIN preview : \A j \in DOMAIN preview[i] :
          DOMAIN preview[i][j] # DOMAIN KeyError
    /\ Exported => \A i \in DOMAIN groups :
          download.excel.group_row_counts[i] = Len(groups[i].bin_keys)

\* An export and a preview are computed after a bin was deleted, with a finalized
\* group (which no multiselect re-filters) still holding ids.
C1_Witness ==
    /\ Exported
    /\ Cardinality(DOMAIN bin_library) < next_bin_id - 1
    /\ \E i \in DOMAIN groups : groups[i].finalized /\ groups[i].bin_keys # << >>
    /\ \E i \in DOMAIN preview : preview[i] # << >>

(* C2 *)
DeleteBinEffect(b) ==
    /\ DOMAIN bin_library' = DOMAIN bin_library \ {b}
    /\ \A k \in DOMAIN bin_library' :
          bin_library'[k] = bin_library[k] /\ lip_chk'[k] = lip_chk[k]
    /\ next_bin_id' = next_bin_id
    /\ Len(groups') = Len(groups)
    /\ \A i \in DOMAIN groups :
          /\ ViewNext(i).group_data = View(i).group_data
          /\ ViewNext(i).finalized = View(i).finalized
          /\ ViewNext(i).bin_keys = SelectSeq(View(i).bin_keys, LAMBDA k : k # b)

\* C2: deleting bin b removes every occurrence of b from every group's bin_keys
\* and changes nothing else: the other ids keep their order, group_data,
\* finalized, the number and order of groups and every other library entry are
\* unchanged.
C2_DeleteBinFrame ==
    [][\A b \in DOMAIN bin_library : DeleteBin(b) => DeleteBinEffect(b)]_vars

\* A bin has been deleted, and a finalized group keeps two ids in an order that
\* is not the library's.
C2_Witness ==
    /\ LibraryIds \ DOMAIN bin_library # {}
    /\ \E i \in DOMAIN groups :
          /\ groups[i].finalized
          /\ Len(groups[i].bin_keys) >= 2
          /\ groups[i].bin_keys[1] = BinId(2)
          /\ groups[i].bin_keys[2] = BinId(1)

(* C3 *)
\* C3 as claimed: the id "Add New Bin Type" allocates differs from every id
\* allocated earlier in the session, Clear All Data or not.
C3_NeverReusedInSession ==
    [][next_bin_id' > next_bin_id =>
          \E id \in DOMAIN bin_library' :
             /\ DOMAIN bin_library' = DOMAIN bin_library \cup {id}
             /\ id \notin issued.session]_vars

\* C3 amended: the id "Add New Bin Type" allocates is new to the library and
\* differs from every id allocated since the last Clear All Data (or the start
\* of the session); the counter only decreases when Clear All Data resets it
\* to 1, together with emptying the library and the group list.
C3_NeverReusedSinceClear ==
    [][/\ next_bin_id' > next_bin_id =>
             \E id \in DOMAIN bin_library' :
                /\ DOMAIN bin_library' = DOMAIN bin_library \cup {id}
                /\ id \notin DOMAIN bin_library
                /\ id \notin issued.since_clear
       /\ next_bin_id' < next_bin_id =>
             next_bin_id' = 1 /\ groups' = << >> /\ DOMAIN bin_library' = {}]_vars

\* A bin was allocated after a Clear All Data that followed earlier
\* allocations.
C3_Witness ==
    /\ issued.since_clear # {}
    /\ issued.session # issued.since_clear
    /\ BinId(next_bin_id - 1) \in DOMAIN bin_library

(* C5 *)
CopyEffect(i) ==
    LET n == Len(groups)
    IN  /\ Len(groups') = n + 1
        /\ \A j \in 1..n : ViewNext(j) = View(j)
        /\ ViewNext(n + 1) =
              [group_data |->
                  [View(i).group_data EXCEPT !["Group Name"] =
                      IF @ = "" THEN "Untitled (Copy)" ELSE @ \o " (Copy)"],
               bin_keys |-> View(i).bin_keys,
               finalized |-> FALSE]

\* No two groups refer to the same group_data dict.
NoAlias ==
    \A i, j \in DOMAIN groups : i # j => groups[i].group_data # groups[j].group_data

\* The groups whose fields the step changed.
Changed == {i \in DOMAIN groups : ViewNext(i) # View(i)}

C6_WarningWheneverEmpty ==
    (groups = << >> \/ DOMAIN bin_library = {})
        => ~Exported /\ (download.shown = "warning" \/ info)

\* C6 amended: the export is attempted exactly when the group list and the
\* library are both non-empty; the warning is shown exactly when the group list
\* is non-empty and the library is empty; with an empty group list the Download
\* section shows nothing, neither the button nor the warning.
C6_ExportOnlyWhenBothNonEmpty ==
    /\ Exported <=> (groups # << >> /\ DOMAIN bin_library # {})
    /\ download.shown = "warning" <=> (groups # << >> /\ DOMAIN bin_library = {})
    /\ groups = << >> => download.shown = "nothing"
    /\ ~Exported => download.excel = NoExcel

\* Groups without a library: the export is refused with the warning.
C6_Witness ==
    /\ groups # << >>
    /\ DOMAIN bin_library = {}
    /\ next_bin_id > 1
    /\ download.shown = "warning"

(* C7 *)
\* C7 as claimed: the stored lip is 0 if and only if the has-lip flag is false.
C7_LipZeroIffNoLip ==
    \A b \in DOMAIN bin_library : (bin_library[b]["Lip (cm)"] = 0) <=> ~lip_chk[b]

\* C7 amended: with the flag false the lip is 0; with the flag true the lip is
\* height_mm * 0.02 (in the model's units: lip/1000 cm, height/10 mm), which is
\* 0 for height 0; so the lip is 0 iff the flag is false or the height is 0.
C7_LipRule ==
    \A b \in DOMAIN bin_library :
        LET lip == bin_library[b]["Lip (cm)"]
            height == bin_library[b]["Height (mm)"]
        IN  /\ ~lip_chk[b] => lip = 0
            /\ lip_chk[b] => lip * 10 * 100 = height * 1000 * 2
            /\ lip = 0 <=> (~lip_chk[b] \/ height = 0)

\* A bin with the flag set and a positive height, and one with the flag cleared
\* again at that height.
C7_Witness ==
    /\ \E b \in DOMAIN bin_library :
          lip_chk[b] /\ bin_library[b]["Height (mm)"] > 0 /\ bin_library[b]["Lip (cm)"] > 0
    /\ \E b \in DOMAIN bin_library :
          ~lip_chk[b] /\ bin_library[b]["Height (mm)"] > 0

(* C8 *)
\* C8: the columns generate_excel merges over a group's row block are exactly
\* the nine group-identity columns GROUP_COLS.
C8_MergedAreGroupCols ==
    (Exported /\ download.excel.merged_cells # {})
        => {EXPORT_COLUMNS[m.start_column] : m \in download.excel.merged_cells}
              = Range(GROUP_COLS)

(* C9 *)
DOWNSTREAM_COLS == {"Qty Per Bay", "Total Quantity", "Bin Gross CBM", "Bin Net CBM"}

\* The one group and bin of the calculate_fields specification.
TheGroup == heap[groups[1].group_data]
TheBin == bin_library[groups[1].bin_keys[1]]

\* C9 as claimed: End Aisle < Start Aisle gives '# of Aisles' = end - start + 1
\* unchanged, and a negative aisle count makes a downstream quantity negative.
C9_NegativeDownstream ==
    (preview # << >> /\ TheGroup["End Aisle"] < TheGroup["Start Aisle"])
        => LET out == preview[1][1]
           IN  /\ out["# of Aisles"] = TheGroup["End Aisle"] - TheGroup["Start Aisle"] + 1
               /\ out["# of Aisles"] < 0 => \E c \in DOWNSTREAM_COLS : out[c] < 0

\* C9 amended: '# of Aisles' is end - start + 1 whatever the order of the two
\* (zero or negative for End Aisle < Start Aisle), and no other derived
\* quantity depends on it: Qty Per Bay, Total Quantity, Bin Gross CBM and Bin
\* Net CBM are what they are for a single aisle, and never negative.
C9_AislesNotPropagated ==
    preview # << >>
        => LET out == preview[1][1]
               one == calculate_fields([TheGroup EXCEPT !["Start Aisle"] = 1,
                                                        !["End Aisle"] = 1], TheBin)
           IN  /\ out["# of Aisles"] = TheGroup["End Aisle"] - TheGroup["Start Aisle"] + 1
               /\ TheGroup["End Aisle"] < TheGroup["Start Aisle"] => out["# of Aisles"] <= 0
               /\ \A c \in DOWNSTREAM_COLS : out[c] = one[c] /\ out[c] >= 0

\* A preview with a negative aisle count and positive quantities.
C9_Witness ==
    /\ preview # << >>
    /\ preview[1][1]["# of Aisles"] < 0
    /\ preview[1][1]["Total Quantity"] > 1
    /\ preview[1][1]["Bin Net CBM"] > 0

(* C4 *)
\* C4: generate_excel emits one row per occurrence of an id that is in the
\* library (a repeated id counts each time, an absent id is skipped and not
\* counted); group_row_counts has one entry per group, the number of its rows,
\* and the rows number the sum of the counts.
C4_RowCounts ==
    Exported
        => LET x == download.excel
           IN  /\ Len(x.group_row_counts) = Len(groups)
               /\ \A i \in DOMAIN groups :
                     x.group_row_counts[i] = Cardinality(Surviving(i))
               /\ Len(x.df) = Offset(Len(groups) + 1)

\* An export of a group that repeats a library id and holds an absent one, and
\* of a group whose ids are all absent.
C4_Witness ==
    /\ Exported
    /\ \E i \in DOMAIN groups :
          /\ Len(groups[i].bin_keys) >= 2
          /\ Surviving(i) = {}
          /\ download.excel.group_row_counts[i] = 0
    /\ \E i \in DOMAIN groups :
          /\ Len(groups[i].bin_keys) >= 2
          /\ groups[i].bin_keys[1] = groups[i].bin_keys[2]
          /\ download.excel.group_row_counts[i] = 2

(* C10 *)
\* The sheet rows of group i's block, as they should be.
Block(i) == [start_row |-> 2 + Offset(i), end_row |-> 1 + Offset(i + 1)]

\* C10: the rows come in group order, then bin_keys order; every group with
\* rows has its block merged in every merged column, starting at row 2 plus the
\* rows of the groups before it; the blocks of a column do not overlap and
\* cover rows 2 .. 1 + total; a group without rows has no merge and shifts
\* nothing.
C10_RowsAndBlocks ==
    Exported
        => LET x == download.excel
               WithRows == {i \in DOMAIN groups : Surviving(i) # {}}
               Columns == {m.start_column : m \in x.merged_cells}
           IN  /\ \A i \in DOMAIN groups :
                     LET kept == SelectSeq(groups[i].bin_keys,
                                           LAMBDA k : k \in DOMAIN bin_library)
                     IN  \A j \in DOMAIN kept :
                            x.df[Offset(i) + j] =
                               full_row(View(i).group_data,
                                        calculate_fields(View(i).group_data,
                                                         bin_library[kept[j]]))
               /\ \A m \in x.merged_cells : m.start_column = m.end_column
               /\ WithRows # {} <=> Columns # {}
               /\ \A c \in Columns :
                     {[start_row |-> m.start_row, end_row |-> m.end_row] :
                         m \in {mm \in x.merged_cells : mm.start_column = c}}
                       = {Block(i) : i \in WithRows}
               /\ \A i, h \in WithRows :
                     i < h => Block(i).end_row < Block(h).start_row
               /\ \A r \in 2..(1 + Len(x.df)) :
                     \E i \in WithRows : Block(i).start_row <= r /\ r <= Block(i).end_row

\* An export where a group without rows comes before a group with two.
C10_Witness ==
    /\ Exported
    /\ Len(groups) >= 2
    /\ groups[1].bin_keys # << >>
    /\ download.excel.group_row_counts[1] = 0
    /\ download.excel.group_row_counts[2] = 2

====
